---- MODULE Spec2Model ----
(***************************************************************************)
(* kubetest/azure.go: the acs-engine deployer of kubetest.  The Cluster    *)
(* lifecycle (newAcsEngine, Up, Down and the status methods) as a          *)
(* sequential state machine.  Every external capability (process           *)
(* execution, download, file system, cloud client, blob upload) is an      *)
(* environment choice between the outcomes it can deliver.                 *)
(***************************************************************************)
EXTENDS Naturals, Sequences, FiniteSets, TLC

VARIABLES
  flags,        \* the package-level flag variables (lines 42-64)
  cluster,      \* the Cluster the constructor returned (the caller's value)
  c,            \* the receiver of the running method: Up's and Down's own copy
  locals,       \* newAcsEngine's tempdir and sshKey
  pc,           \* position of the single thread of control
  result,       \* what the last call delivered to its caller
  calls,        \* number of method calls made on the Cluster
  i,            \* loop index of the running fetch
  retry,        \* retry parameter of the running fetch
  err,          \* function-level err variable of the running fetch
  fret,         \* value a fetch function returned to its caller
  herr,         \* error of the latest httpRead (the if-scoped err)
  failed,       \* the first operation of the current call that failed, and its error
  apiModel,     \* the AcsEngineApiModel v built by generateTemplate
  files,        \* local files the program writes: path -> sequence of chunks
  blobs,        \* blobs in the storage container
  env,          \* environment variables the program has set: name -> value
  groups,       \* resource groups that exist at the cloud provider
  ops,          \* external operations issued by the current call, in order
  stages,       \* stages of Up started by the current call, in order
  slept,        \* arguments of sleep() in the current call, in seconds
  prevUp        \* side effects and outcome of the previous Up call

vars == <<flags, cluster, c, locals, pc, result, calls, i, retry, err, fret,
          herr, failed, apiModel, files, blobs, env, groups, ops, stages, slept, prevUp>>

(***************************************************************************)
(* Bounds of the model.                                                    *)
(***************************************************************************)
MaxCalls == 2     \* method calls made on one Cluster
MaxRetry == 3     \* largest retry parameter a fetch is started with

(***************************************************************************)
(* Errors.  An error is the sequence of the parts of its message, the      *)
(* outermost context first; nil is the empty sequence.                     *)
(***************************************************************************)
NoErr == << >>

\* fmt.Errorf("<msg>: %v", e): a nil e is formatted as "<nil>"
Errorf(msg, e) == <<msg>> \o (IF e = NoErr THEN <<"<nil>">> ELSE e)

Contains(e, part) == \E k \in 1..Len(e) : e[k] = part

\* path.Join
PathJoin(a, b) == IF a = "" THEN b ELSE a \o "/" \o b

Op(name, arg) == [op |-> name, arg |-> arg]

OpNames(log) == {log[k].op : k \in 1..Len(log)}

Count(log, name) == Cardinality({k \in 1..Len(log) : log[k].op = name})

\* position of the first occurrence of an operation, 0 when absent
FirstPos(log, name) ==
  IF name \in OpNames(log)
  THEN CHOOSE k \in 1..Len(log) :
         log[k].op = name /\ \A j \in 1..(k-1) : log[j].op # name
  ELSE 0

(***************************************************************************)
(* The process environment the program reads (os.Getenv, os.Getwd).        *)
(***************************************************************************)
HOME == "/home/prow"
BUILD_NUMBER == "1234"
REGISTRY == "k8swin.azurecr.io"
CWD == "/go/src/k8s.io/kubernetes"
UUID == "6ba7b810"

PAYLOAD == "payload"      \* the bytes a successful download delivers
PARTIAL == "partial"      \* bytes a download wrote before it failed
GoodMD5 == "md5(payload)"
BadMD5 == "md5(other)"

\* md5sum over a file's content
Md5(content) == IF content = <<PAYLOAD>> THEN GoodMD5 ELSE BadMD5

TemplateURL == "/apimodel/kubernetes.json"
EngineURL == "https://example.com/acs-engine.tar.gz"
ZipScriptURL ==
  "https://raw.githubusercontent.com/Azure/acs-engine/master/scripts/build-windows-k8s.sh"

(***************************************************************************)
(* Flags, lines 42-64.  The flags the pipeline branches on are inputs; the *)
(* others keep their defaults.                                             *)
(***************************************************************************)
FlagInputs ==
  { f \in [ acsResourceName      : {""},
            acsResourceGroupName : {""},
            acsDnsPrefix         : {""},
            acsSSHPublicKeyPath  : {""},
            acsLocation          : {"westus2"},
            acsAdminUsername     : {"", "azureuser"},
            acsAdminPassword     : {"", "P@ssw0rd1"},
            acsCredentialsFile   : {"", "/etc/azure/creds.toml"},
            acsTemplatePath      : {"", TemplateURL},
            acsEngineURL         : {"", EngineURL},
            acsEngineMD5         : {"", GoodMD5, BadMD5},
            acsWinBinariesURL    : {"", "https://store/win.zip"},
            acsHyperKubeURL      : {"", "registry/img:v9"},
            acsWinZipBuildScript : {ZipScriptURL} ] :
      \* the checksum is read only by the download of the generator
      f.acsEngineURL = "" => f.acsEngineMD5 = "" }

\* The zero value of a Cluster; the constructor returns nil in its place.
NilCluster ==
  [ apiModelPath |-> "", name |-> "", dnsPrefix |-> "", location |-> "",
    resourceGroup |-> "", outputDir |-> "", sshPublicKey |-> "",
    credentials |-> "nil", templateJSON |-> "nil", parametersJSON |-> "nil",
    acsCustomHyperKubeURL |-> "", acsCustomWinBinariesURL |-> "",
    acsEngineBinaryPath |-> "", azureClient |-> "nil" ]

NoResult == [call |-> "", kind |-> "none", err |-> NoErr]

NoApiModel ==
  [ Name |-> "", DNSPrefix |-> "", AdminUsername |-> "", AdminPassword |-> "",
    ClientID |-> "", CustomHyperkubeImage |-> "", CustomWindowsPackageURL |-> "" ]

NoFailure ==
  [stage |-> "", op |-> "", cause |-> NoErr, firstOp |-> "", firstCause |-> NoErr]

NoPrevUp == [kind |-> "none", effects |-> << >>]

NoFiles == [p \in {} |-> << >>]

WriteTo(fs, path, content) ==
  [q \in (DOMAIN fs) \cup {path} |-> IF q = path THEN content ELSE fs[q]]

(***************************************************************************)
(* Returning from a call on the Cluster, and abnormal termination.         *)
(***************************************************************************)
Return(e) ==
  /\ pc' = "idle"
  /\ result' = [result EXCEPT !.kind = IF e = NoErr THEN "ok" ELSE "error",
                              !.err = e]

\* a run-time panic (index out of range, failed type assertion) ends the process
Panic(what) ==
  /\ pc' = "exit"
  /\ result' = [result EXCEPT !.kind = "panic", !.err = <<what>>]

\* the external operation op of a stage failed with the error cause; the
\* first failure of the call is kept beside the latest
Fails(stage, op, cause) ==
  failed' = [stage |-> stage, op |-> op, cause |-> cause,
             firstOp |-> IF failed.op = "" THEN op ELSE failed.firstOp,
             firstCause |-> IF failed.op = "" THEN cause ELSE failed.firstCause]

\* checkParams without the check of the admin password
checkParamsNoPassword(f) ==
  IF f.acsCredentialsFile = ""
  THEN [flags |-> f, err |-> <<"No credentials file path specified">>]
  ELSE
    LET f1 == IF f.acsResourceName = ""
              THEN [f EXCEPT !.acsResourceName = "kubetest-" \o UUID] ELSE f
        f2 == IF f1.acsResourceGroupName = ""
              THEN [f1 EXCEPT !.acsResourceGroupName = f1.acsResourceName \o "-rg"]
              ELSE f1
        f3 == IF f2.acsDnsPrefix = ""
              THEN [f2 EXCEPT !.acsDnsPrefix = f2.acsResourceName] ELSE f2
        f4 == IF f3.acsSSHPublicKeyPath = ""
              THEN [f3 EXCEPT !.acsSSHPublicKeyPath = HOME \o "/.ssh/id_rsa.pub"]
              ELSE f3
    IN IF f4.acsAdminUsername = ""
       THEN [flags |-> f4,
             err |-> <<"Error parsing flags. No admin username specified">>]
       ELSE [flags |-> f4, err |-> NoErr]

(***************************************************************************)
(* checkParams, lines 116-139: the flags as it leaves them and its error.  *)
(***************************************************************************)
checkParams(f) ==
  IF f.acsCredentialsFile = ""
  THEN [flags |-> f, err |-> <<"No credentials file path specified">>]
  ELSE
    LET f1 == IF f.acsResourceName = ""
              THEN [f EXCEPT !.acsResourceName = "kubetest-" \o UUID] ELSE f
        f2 == IF f1.acsResourceGroupName = ""
              THEN [f1 EXCEPT !.acsResourceGroupName = f1.acsResourceName \o "-rg"]
              ELSE f1
        f3 == IF f2.acsDnsPrefix = ""
              THEN [f2 EXCEPT !.acsDnsPrefix = f2.acsResourceName] ELSE f2
        f4 == IF f3.acsSSHPublicKeyPath = ""
              THEN [f3 EXCEPT !.acsSSHPublicKeyPath = HOME \o "/.ssh/id_rsa.pub"]
              ELSE f3
    IN IF f4.acsAdminUsername = ""
       THEN [flags |-> f4,
             err |-> <<"Error parsing flags. No admin username specified">>]
       ELSE IF f4.acsAdminPassword = ""
       THEN [flags |-> f4,
             err |-> <<"Error parting flags. No admin password specified.">>]
       ELSE [flags |-> f4, err |-> NoErr]

Init ==
  /\ flags \in FlagInputs
  /\ cluster = NilCluster
  /\ c = NilCluster
  /\ locals = [tempdir |-> "", sshKey |-> ""]
  /\ pc = "new"
  /\ result = NoResult
  /\ calls = 0
  /\ i = 0
  /\ retry = 0
  /\ err = NoErr
  /\ fret = NoErr
  /\ herr = NoErr
  /\ failed = NoFailure
  /\ apiModel = NoApiModel
  /\ files = NoFiles
  /\ blobs = {}
  /\ env = [n \in {} |-> ""]
  /\ groups = {}
  /\ ops = << >>
  /\ stages = << >>
  /\ slept = << >>
  /\ prevUp = NoPrevUp

(***************************************************************************)
(* newAcsEngine, lines 141-180.                                            *)
(***************************************************************************)
\* lines 142-144: checkParams and the early return
NewCheckParams ==
  /\ pc = "new"
  /\ LET r == checkParams(flags) IN
       /\ flags' = r.flags
       /\ IF r.err # NoErr
          THEN /\ pc' = "exit"
               /\ result' = [call |-> "newAcsEngine", kind |-> "error",
                             err |-> Errorf("Error creating Azure K8S cluster", r.err)]
          ELSE /\ pc' = "new_tempdir"
               /\ result' = [call |-> "newAcsEngine", kind |-> "running",
                             err |-> NoErr]
  /\ UNCHANGED <<failed, cluster, c, locals, calls, i, retry, err, fret, herr, apiModel, files,
                 blobs, env, groups, ops, stages, slept, prevUp>>

\* lines 146-150: ioutil.TempDir (its error is dropped; the directory is taken
\* to be created), then the SSH key is read
NewReadSSHKey ==
  /\ pc = "new_tempdir"
  /\ \E keyOk \in BOOLEAN :
       LET tempdir == HOME \o "/acs001"
           log == <<Op("TempDir", HOME), Op("ReadFile", flags.acsSSHPublicKeyPath)>>
       IN /\ ops' = ops \o log
          /\ IF keyOk
             THEN /\ locals' = [tempdir |-> tempdir, sshKey |-> "ssh-rsa AAAA"]
                  /\ pc' = "new_creds"
                  /\ UNCHANGED result
             ELSE /\ locals' = [tempdir |-> tempdir, sshKey |-> ""]
                  /\ pc' = "exit"
                  /\ result' = [result EXCEPT !.kind = "error",
                        !.err = Errorf("Error reading SSH Key",
                                       <<"open: no such file or directory">>)]
  /\ UNCHANGED <<failed, flags, cluster, c, calls, i, retry, err, fret, herr, apiModel, files,
                 blobs, env, groups, stages, slept, prevUp>>

\* lines 101-114: getAzCredentials; the credentials c holds afterwards
getAzCredentials(readOk, parseOk) ==
  IF ~readOk
  THEN [credentials |-> "empty",
        err |-> Errorf("Error reading credentials file", <<"open: no such file">>)]
  ELSE IF ~parseOk
  THEN [credentials |-> "partial",
        err |-> Errorf("Error parsing credentials file", <<"toml: syntax error">>)]
  ELSE [credentials |-> "resolved", err |-> NoErr]

\* lines 151-164: the Cluster literal
ClusterLiteral(f, l) ==
  [NilCluster EXCEPT
     !.apiModelPath = f.acsTemplatePath,
     !.name = f.acsResourceName,
     !.dnsPrefix = f.acsDnsPrefix,
     !.location = f.acsLocation,
     !.resourceGroup = f.acsResourceGroupName,
     !.outputDir = l.tempdir,
     !.sshPublicKey = l.sshKey,
     !.credentials = "empty",
     !.acsEngineBinaryPath = "acs-engine"]

\* line 165: c.getAzCredentials() with its
\* result dropped
NewGetAzCredentials ==
  /\ pc = "new_creds"
  /\ \E readOk \in BOOLEAN, parseOk \in BOOLEAN :
       /\ readOk \/ parseOk
       /\ c' = [ClusterLiteral(flags, locals) EXCEPT
                  !.credentials = getAzCredentials(readOk, parseOk).credentials]
  /\ ops' = Append(ops, Op("ReadFile", flags.acsCredentialsFile))
  /\ pc' = "new_client"
  /\ UNCHANGED <<failed, flags, cluster, locals, result, calls, i, retry, err, fret, herr,
                 apiModel, files, blobs, env, groups, stages, slept, prevUp>>

\* lines 352-364 and 166-179: getARMClient, the two conformance variables,
\* and the return of &c
NewGetARMClient ==
  /\ pc = "new_client"
  /\ ops' = Append(ops, Op("getAzureClient", c.credentials))
  /\ \E clientOk \in BOOLEAN :
       IF clientOk
       THEN /\ c' = [c EXCEPT !.azureClient = "client(" \o c.credentials \o ")"]
            /\ cluster' = c'
            /\ env' = WriteTo(WriteTo(env, "KUBERNETES_CONFORMANCE_TEST", "yes"),
                              "KUBERNETES_CONFORMANCE_PROVIDER", "azure")
            /\ pc' = "idle"
            /\ result' = [result EXCEPT !.kind = "ok"]
       ELSE /\ pc' = "exit"
            /\ result' = [result EXCEPT !.kind = "error",
                  !.err = Errorf("Failed to generate ARM client",
                            Errorf("Error trying to get Azure Client",
                                   <<"invalid credentials">>))]
            /\ UNCHANGED <<c, cluster, env>>
  /\ UNCHANGED <<failed, flags, locals, calls, i, retry, err, fret, herr, apiModel, files,
                 blobs, groups, stages, slept, prevUp>>

(***************************************************************************)
(* The side effects of a call: its builds, downloads, uploads, writes of   *)
(* the specification, generator runs and resource-group requests, with     *)
(* immediate repetitions of the same operation counted once.               *)
(***************************************************************************)
EffectOps == {"exec", "httpRead", "UploadFileToBlockBlob", "WriteFile",
              "EnsureResourceGroup"}

RECURSIVE Dedup(_)
Dedup(s) ==
  IF Len(s) <= 1 THEN s
  ELSE IF s[1] = s[2] THEN Dedup(Tail(s))
  ELSE <<s[1]>> \o Dedup(Tail(s))

Effects(log) == Dedup(SelectSeq(log, LAMBDA o : o.op \in EffectOps))

IsPrefix(s, t) == Len(s) <= Len(t) /\ \A k \in 1..Len(s) : s[k] = t[k]

\* what the latest completed Up did, as the next call finds it
LastUp ==
  IF result.call = "Up"
  THEN [kind |-> result.kind, effects |-> Effects(ops)]
  ELSE prevUp

\* an entry of Up that keeps working on the Cluster the previous Up left
UpEnterResuming ==
  /\ pc = "idle"
  /\ calls < MaxCalls
  /\ calls' = calls + 1
  /\ c' = IF result.call = "Up" THEN c ELSE cluster
  /\ pc' = "up_hyperkube"
  /\ result' = [call |-> "Up", kind |-> "running", err |-> NoErr]
  /\ ops' = << >>
  /\ stages' = << >>
  /\ slept' = << >>
  /\ i' = 0
  /\ retry' = 0
  /\ err' = NoErr
  /\ fret' = NoErr
  /\ herr' = NoErr
  /\ failed' = NoFailure
  /\ apiModel' = NoApiModel
  /\ prevUp' = LastUp
  /\ UNCHANGED <<flags, cluster, locals, files, blobs, env, groups>>

(***************************************************************************)
(* Up, lines 480-520: entry.  The receiver is a value: c is a copy of the  *)
(* caller's Cluster.                                                       *)
(***************************************************************************)
UpEnter ==
  /\ pc = "idle"
  /\ calls < MaxCalls
  /\ calls' = calls + 1
  /\ c' = cluster
  /\ pc' = "up_hyperkube"
  /\ result' = [call |-> "Up", kind |-> "running", err |-> NoErr]
  /\ ops' = << >>
  /\ stages' = << >>
  /\ slept' = << >>
  /\ i' = 0
  /\ retry' = 0
  /\ err' = NoErr
  /\ fret' = NoErr
  /\ herr' = NoErr
  /\ failed' = NoFailure
  /\ apiModel' = NoApiModel
  /\ prevUp' = LastUp
  /\ UNCHANGED <<flags, cluster, locals, files, blobs, env, groups>>

\* the conditions that gate the four optional stages of Up
\* gates that do not follow the configuration
BuildsHyperKubeAlways == TRUE
RunsGetAcsEngineWhenEmpty == flags.acsEngineURL = ""

RunsBuildHyperKube == flags.acsHyperKubeURL = ""
RunsBuildWinZip == flags.acsWinBinariesURL = ""
RunsGenerateTemplate == c.apiModelPath = ""
RunsGetAcsEngine == flags.acsEngineURL # ""

\* lines 483-488 and buildHyperKube, lines 394-407
UpBuildHyperKube ==
  /\ pc = "up_hyperkube"
  /\ IF RunsBuildHyperKube
     THEN \E ok \in BOOLEAN :
            /\ ops' = ops \o <<Op("Setenv", "VERSION"),
                               Op("exec", "hack/dev-push-hyperkube.sh")>>
            /\ stages' = Append(stages, "buildHyperKube")
            /\ env' = WriteTo(env, "VERSION", BUILD_NUMBER)
            /\ IF ok
               THEN /\ c' = [c EXCEPT !.acsCustomHyperKubeURL =
                               REGISTRY \o "/hyperkube-amd64:" \o BUILD_NUMBER]
                    /\ pc' = "up_winzip"
                    /\ UNCHANGED <<result, failed>>
               ELSE /\ Return(Errorf("Problem building hyperkube",
                                     <<"exit status 1">>))
                    /\ Fails("buildHyperKube", "exec", <<"exit status 1">>)
                    /\ UNCHANGED c
     ELSE /\ pc' = "up_winzip"
          /\ UNCHANGED <<c, result, failed, ops, stages, env>>
  /\ UNCHANGED <<flags, cluster, locals, calls, i, retry, err, fret, herr,
                 apiModel, files, blobs, groups, slept, prevUp>>

ZipScriptRetry == 2
AcsEngineRetry == 2

\* lines 489-494 and 460-466: buildWinZip up to the call of getZipBuildScript
UpBuildWinZip ==
  /\ pc = "up_winzip"
  /\ IF RunsBuildWinZip
     THEN /\ stages' = Append(stages, "buildWinZip")
          /\ retry' = ZipScriptRetry
          /\ pc' = "zip_create"
     ELSE /\ pc' = "up_template"
          /\ UNCHANGED <<stages, retry>>
  /\ UNCHANGED <<flags, cluster, c, locals, result, calls, i, err, fret, herr,
                 failed, apiModel, files, blobs, env, groups, ops, slept, prevUp>>

(***************************************************************************)
(* getZipBuildScript, lines 436-458.                                       *)
(***************************************************************************)
ZipScriptPath == PathJoin(HOME, "build-win-zip.sh")

\* a pause one second longer than the loop index
SleepSecondsAfter(k) == k + 1

\* lines 292 and 454: sleep(time.Duration(i) * time.Second), in seconds
SleepSeconds(k) == k

\* what one httpRead can do: deliver the payload, fail before any byte is
\* written, or fail after part of the body was written
HttpOutcomes == {"ok", "refused", "reset"}

HttpError(out) ==
  IF out = "refused" THEN <<"connection refused">>
  ELSE IF out = "reset" THEN <<"unexpected EOF">>
  ELSE NoErr

\* the bytes httpRead writes through the open handle, after what is there
HttpWrite(content, out) ==
  IF out = "ok" THEN Append(content, PAYLOAD)
  ELSE IF out = "reset" THEN Append(content, PARTIAL)
  ELSE content

\* lines 437-442: os.Create truncates or creates the destination
ZipCreate ==
  /\ pc = "zip_create"
  /\ ops' = Append(ops, Op("os.Create", ZipScriptPath))
  /\ \E ok \in BOOLEAN :
       IF ok
       THEN /\ files' = WriteTo(files, ZipScriptPath, << >>)
            /\ err' = NoErr
            /\ i' = 0
            /\ pc' = "zip_loop"
            /\ UNCHANGED <<fret, failed>>
       ELSE /\ fret' = <<"open: permission denied">>
            /\ Fails("buildWinZip", "os.Create", <<"open: permission denied">>)
            /\ pc' = "zip_ret"
            /\ UNCHANGED <<files, err, i>>
  /\ UNCHANGED <<flags, cluster, c, locals, result, calls, retry, herr, apiModel,
                 blobs, env, groups, stages, slept, prevUp>>

\* lines 444-457: one turn of the loop; on leaving it, Chmod and the return
ZipAttempt ==
  /\ pc = "zip_loop"
  /\ IF i < retry
     THEN \E out \in HttpOutcomes :
            /\ files' = WriteTo(files, ZipScriptPath,
                                HttpWrite(files[ZipScriptPath], out))
            /\ herr' = HttpError(out)
            /\ IF out = "ok"
               THEN /\ ops' = ops \o <<Op("httpRead", flags.acsWinZipBuildScript),
                                       Op("Chmod", ZipScriptPath)>>
                    /\ fret' = NoErr
                    /\ pc' = "zip_ret"
                    /\ UNCHANGED <<err, i, slept, failed>>
               ELSE /\ err' = Errorf("url=" \o flags.acsWinZipBuildScript
                                       \o " failed get " \o ZipScriptPath, err)
                    /\ IF i = retry - 1
                       THEN /\ fret' = err'
                            /\ Fails("buildWinZip", "httpRead", HttpError(out))
                            /\ pc' = "zip_ret"
                            /\ ops' = Append(ops,
                                       Op("httpRead", flags.acsWinZipBuildScript))
                            /\ UNCHANGED <<i, slept>>
                       ELSE /\ slept' = Append(slept, SleepSeconds(i))
                            /\ ops' = ops \o
                                 <<Op("httpRead", flags.acsWinZipBuildScript),
                                   Op("sleep", "")>>
                            /\ i' = i + 1
                            /\ UNCHANGED <<fret, pc, failed>>
     ELSE /\ ops' = Append(ops, Op("Chmod", ZipScriptPath))
          /\ fret' = NoErr
          /\ pc' = "zip_ret"
          /\ UNCHANGED <<files, herr, err, i, slept, failed>>
  /\ UNCHANGED <<flags, cluster, c, locals, result, calls, retry, apiModel,
                 blobs, env, groups, stages, prevUp>>

(***************************************************************************)
(* buildWinZip, lines 466-478, after getZipBuildScript returned.           *)
(***************************************************************************)
ZipName == BUILD_NUMBER \o ".zip"
ZipPath == PathJoin(HOME, ZipName)

\* a build whose failed script does not stop the upload
WinZipRunScriptIgnored ==
  /\ pc = "zip_ret"
  /\ IF fret # NoErr
     THEN /\ Return(Errorf("Problem building windowsZipFile", fret))
          /\ UNCHANGED <<ops, failed>>
     ELSE \E ok \in BOOLEAN :
            /\ ops' = Append(ops, Op("exec", ZipScriptPath))
            /\ IF ok
               THEN /\ pc' = "zip_upload"
                    /\ UNCHANGED <<result, failed>>
               ELSE /\ pc' = "zip_upload"
                    /\ UNCHANGED result
                    /\ Fails("buildWinZip", "exec", <<"exit status 1">>)
  /\ i' = 0
  /\ err' = NoErr
  /\ UNCHANGED <<flags, cluster, c, locals, calls, retry, fret, herr, apiModel,
                 files, blobs, env, groups, stages, slept, prevUp>>

\* lines 466-472: the error of the fetch ends Up; otherwise the script runs
WinZipRunScript ==
  /\ pc = "zip_ret"
  /\ IF fret # NoErr
     THEN /\ Return(Errorf("Problem building windowsZipFile", fret))
          /\ UNCHANGED <<ops, failed>>
     ELSE \E ok \in BOOLEAN :
            /\ ops' = Append(ops, Op("exec", ZipScriptPath))
            /\ IF ok
               THEN /\ pc' = "zip_upload"
                    /\ UNCHANGED <<result, failed>>
               ELSE /\ Return(Errorf("Problem building windowsZipFile",
                                     <<"exit status 1">>))
                    /\ Fails("buildWinZip", "exec", <<"exit status 1">>)
  /\ i' = 0
  /\ err' = NoErr
  /\ UNCHANGED <<flags, cluster, c, locals, calls, retry, fret, herr, apiModel,
                 files, blobs, env, groups, stages, slept, prevUp>>

\* lines 473-476 and uploadZip, lines 409-434
WinZipUpload ==
  /\ pc = "zip_upload"
  /\ \E out \in {"ok", "open failed", "upload failed"} :
       /\ ops' = ops \o (IF out = "open failed"
                         THEN <<Op("os.Open", ZipPath)>>
                         ELSE <<Op("os.Open", ZipPath),
                                Op("UploadFileToBlockBlob", ZipName)>>)
       /\ IF out = "ok"
          THEN /\ blobs' = blobs \cup {ZipName}
               /\ c' = [c EXCEPT !.acsCustomWinBinariesURL =
                          "https://account.blob.core.windows.net/container/"
                            \o ZipName]
               /\ pc' = "up_template"
               /\ UNCHANGED <<result, failed>>
          ELSE IF out = "open failed"
          THEN /\ Return(Errorf("Problem building windowsZipFile",
                           Errorf("Failed to open file " \o ZipPath \o " . Error",
                                  <<"open: no such file or directory">>)))
               /\ Fails("buildWinZip", "os.Open", <<"open: no such file or directory">>)
               /\ UNCHANGED <<blobs, c>>
          ELSE /\ Return(Errorf("Problem building windowsZipFile",
                                <<"upload: 403 Forbidden">>))
               /\ Fails("buildWinZip", "UploadFileToBlockBlob", <<"upload: 403 Forbidden">>)
               /\ UNCHANGED <<blobs, c>>
  /\ UNCHANGED <<flags, cluster, locals, calls, i, retry, err, fret, herr,
                 apiModel, files, env, groups, stages, slept, prevUp>>

(***************************************************************************)
(* generateTemplate, lines 182-272.                                        *)
(***************************************************************************)
\* lines 183-264: the api model v, with the precedence of the two overrides
\* a specification in which the recorded image wins over the configured one
ApiModelOfRecordedFirst(f, cl) ==
  [ Name |-> cl.name,
    DNSPrefix |-> cl.dnsPrefix,
    AdminUsername |-> f.acsAdminUsername,
    AdminPassword |-> f.acsAdminPassword,
    ClientID |-> cl.credentials,
    CustomHyperkubeImage |->
      IF cl.acsCustomHyperKubeURL # "" THEN cl.acsCustomHyperKubeURL
      ELSE IF f.acsHyperKubeURL # "" THEN f.acsHyperKubeURL
      ELSE "",
    CustomWindowsPackageURL |->
      IF f.acsWinBinariesURL # "" THEN f.acsWinBinariesURL
      ELSE IF cl.acsCustomWinBinariesURL # "" THEN cl.acsCustomWinBinariesURL
      ELSE "" ]

ApiModelOf(f, cl) ==
  [ Name |-> cl.name,
    DNSPrefix |-> cl.dnsPrefix,
    AdminUsername |-> f.acsAdminUsername,
    AdminPassword |-> f.acsAdminPassword,
    ClientID |-> cl.credentials,
    CustomHyperkubeImage |->
      IF f.acsHyperKubeURL # "" THEN f.acsHyperKubeURL
      ELSE IF cl.acsCustomHyperKubeURL # "" THEN cl.acsCustomHyperKubeURL
      ELSE "",
    CustomWindowsPackageURL |->
      IF f.acsWinBinariesURL # "" THEN f.acsWinBinariesURL
      ELSE IF cl.acsCustomWinBinariesURL # "" THEN cl.acsCustomWinBinariesURL
      ELSE "" ]

\* json.MarshalIndent(v, "", "  "): the document, field by field
Marshal(v) ==
  << "name=" \o v.Name,
     "customHyperkubeImage=" \o v.CustomHyperkubeImage,
     "customWindowsPackageURL=" \o v.CustomWindowsPackageURL,
     "dnsPrefix=" \o v.DNSPrefix,
     "linuxProfile.adminUsername=" \o v.AdminUsername,
     "windowsProfile.adminUsername=" \o v.AdminUsername,
     "windowsProfile.adminPassword=" \o v.AdminPassword,
     "clientId=" \o v.ClientID >>

ApiModelFile(cl) == PathJoin(cl.outputDir, "kubernetes.json")

\* a generateTemplate that records the specification path on the caller's
\* Cluster as well
UpGenerateTemplateOnCaller ==
  /\ pc = "up_template"
  /\ IF RunsGenerateTemplate
     THEN \E marshalOk \in BOOLEAN, writeOk \in BOOLEAN :
            LET v == ApiModelOf(flags, c)
                bytes == IF marshalOk THEN Marshal(v) ELSE << >>
                path == ApiModelFile(c)
            IN /\ apiModel' = v
               /\ stages' = Append(stages, "generateTemplate")
               /\ c' = [c EXCEPT !.apiModelPath = path]
               /\ cluster' = [cluster EXCEPT !.apiModelPath = path]
               /\ ops' = ops \o <<Op("json.MarshalIndent", ""),
                                  Op("WriteFile", path)>>
               /\ IF writeOk
                  THEN /\ files' = WriteTo(files, path, bytes)
                       /\ pc' = "up_acsengine"
                       /\ IF marshalOk THEN UNCHANGED failed
                          ELSE Fails("generateTemplate", "json.MarshalIndent",
                                     <<"json: unsupported value">>)
                       /\ UNCHANGED result
                  ELSE /\ Return(Errorf("Failed to generate apiModel",
                              Errorf("Cannot write to file",
                                     <<"open: permission denied">>)))
                       /\ failed' =
                            [stage |-> "generateTemplate", op |-> "WriteFile",
                             cause |-> <<"open: permission denied">>,
                             firstOp |-> IF marshalOk THEN "WriteFile"
                                         ELSE "json.MarshalIndent",
                             firstCause |-> IF marshalOk
                                            THEN <<"open: permission denied">>
                                            ELSE <<"json: unsupported value">>]
                       /\ UNCHANGED files
     ELSE /\ pc' = "up_acsengine"
          /\ UNCHANGED <<apiModel, stages, c, cluster, ops, files, result, failed>>
  /\ UNCHANGED <<flags, locals, calls, i, retry, err, fret, herr,
                 blobs, env, groups, slept, prevUp>>

\* lines 495-500 and 265-271: the error of MarshalIndent is dropped, so a
\* failed serialisation writes the nil byte slice
UpGenerateTemplate ==
  /\ pc = "up_template"
  /\ IF RunsGenerateTemplate
     THEN \E marshalOk \in BOOLEAN, writeOk \in BOOLEAN :
            LET v == ApiModelOf(flags, c)
                bytes == IF marshalOk THEN Marshal(v) ELSE << >>
                path == ApiModelFile(c)
            IN /\ apiModel' = v
               /\ stages' = Append(stages, "generateTemplate")
               /\ c' = [c EXCEPT !.apiModelPath = path]
               /\ ops' = ops \o <<Op("json.MarshalIndent", ""),
                                  Op("WriteFile", path)>>
               /\ IF writeOk
                  THEN /\ files' = WriteTo(files, path, bytes)
                       /\ pc' = "up_acsengine"
                       /\ IF marshalOk THEN UNCHANGED failed
                          ELSE Fails("generateTemplate", "json.MarshalIndent",
                                     <<"json: unsupported value">>)
                       /\ UNCHANGED result
                  ELSE /\ Return(Errorf("Failed to generate apiModel",
                              Errorf("Cannot write to file",
                                     <<"open: permission denied">>)))
                       /\ failed' =
                            [stage |-> "generateTemplate", op |-> "WriteFile",
                             cause |-> <<"open: permission denied">>,
                             firstOp |-> IF marshalOk THEN "WriteFile"
                                         ELSE "json.MarshalIndent",
                             firstCause |-> IF marshalOk
                                            THEN <<"open: permission denied">>
                                            ELSE <<"json: unsupported value">>]
                       /\ UNCHANGED files
     ELSE /\ pc' = "up_acsengine"
          /\ UNCHANGED <<apiModel, stages, c, ops, files, result, failed>>
  /\ UNCHANGED <<flags, cluster, locals, calls, i, retry, err, fret, herr,
                 blobs, env, groups, slept, prevUp>>

\* lines 501-502: the gate of the download of the generator
UpGetAcsEngine ==
  /\ pc = "up_acsengine"
  /\ IF RunsGetAcsEngine
     THEN /\ stages' = Append(stages, "getAcsEngine")
          /\ retry' = AcsEngineRetry
          /\ pc' = "acs_create"
     ELSE /\ pc' = "up_generate"
          /\ UNCHANGED <<stages, retry>>
  /\ UNCHANGED <<flags, cluster, c, locals, result, calls, i, err, fret, herr,
                 failed, apiModel, files, blobs, env, groups, ops, slept, prevUp>>

(***************************************************************************)
(* getAcsEngine, lines 274-318.                                            *)
(***************************************************************************)
AcsEnginePath == PathJoin(HOME, "acs-engine.tar.gz")

\* lines 275-280
AcsCreate ==
  /\ pc = "acs_create"
  /\ ops' = Append(ops, Op("os.Create", AcsEnginePath))
  /\ \E ok \in BOOLEAN :
       IF ok
       THEN /\ files' = WriteTo(files, AcsEnginePath, << >>)
            /\ err' = NoErr
            /\ i' = 0
            /\ pc' = "acs_loop"
            /\ UNCHANGED <<fret, failed>>
       ELSE /\ fret' = <<"open: permission denied">>
            /\ Fails("getAcsEngine", "os.Create", <<"open: permission denied">>)
            /\ pc' = "acs_ret"
            /\ UNCHANGED <<files, err, i>>
  /\ UNCHANGED <<flags, cluster, c, locals, result, calls, retry, herr, apiModel,
                 blobs, env, groups, stages, slept, prevUp>>

\* lines 282-293: one turn of the loop
AcsAttempt ==
  /\ pc = "acs_loop"
  /\ IF i < retry
     THEN \E out \in HttpOutcomes :
            /\ files' = WriteTo(files, AcsEnginePath,
                                HttpWrite(files[AcsEnginePath], out))
            /\ herr' = HttpError(out)
            /\ IF out = "ok"
               THEN /\ ops' = Append(ops, Op("httpRead", flags.acsEngineURL))
                    /\ pc' = "acs_verify"
                    /\ UNCHANGED <<err, i, slept, fret, failed>>
               ELSE /\ err' = Errorf("url=" \o flags.acsEngineURL
                                       \o " failed get " \o AcsEnginePath, err)
                    /\ IF i = retry - 1
                       THEN /\ fret' = err'
                            /\ Fails("getAcsEngine", "httpRead", HttpError(out))
                            /\ pc' = "acs_ret"
                            /\ ops' = Append(ops, Op("httpRead", flags.acsEngineURL))
                            /\ UNCHANGED <<i, slept>>
                       ELSE /\ slept' = Append(slept, SleepSeconds(i))
                            /\ ops' = ops \o <<Op("httpRead", flags.acsEngineURL),
                                               Op("sleep", "")>>
                            /\ i' = i + 1
                            /\ UNCHANGED <<fret, pc, failed>>
     ELSE /\ pc' = "acs_verify"
          /\ UNCHANGED <<files, herr, err, i, slept, fret, ops, failed>>
  /\ UNCHANGED <<flags, cluster, c, locals, result, calls, retry, apiModel,
                 blobs, env, groups, stages, prevUp>>

\* line 301: the first field of md5sum's output "<sum>  <file>"
Md5sumOutput(content, name) == <<Md5(content), "", name>>

\* a fetch that accepts any checksum
ChecksumAccepted == TRUE

\* line 301: whether the checksum of the downloaded file is the configured one
ChecksumMatches ==
  Md5sumOutput(files[AcsEnginePath], AcsEnginePath)[1] = flags.acsEngineMD5

\* lines 295-317: the checksum when one is configured, then the extraction
AcsVerifyExtract ==
  /\ pc = "acs_verify"
  /\ pc' = "acs_ret"
  /\ \E out \in {"ok", "md5sum failed", "getwd failed", "tar failed"} :
       /\ out = "md5sum failed" => flags.acsEngineMD5 # ""
       /\ LET md5log == IF flags.acsEngineMD5 # ""
                        THEN Append(ops, Op("md5sum", AcsEnginePath)) ELSE ops
          IN
          IF out = "md5sum failed"
          THEN /\ fret' = <<"md5sum: exit status 1">>
               /\ Fails("getAcsEngine", "md5sum", <<"md5sum: exit status 1">>)
               /\ ops' = md5log
               /\ UNCHANGED <<c, files>>
          ELSE IF flags.acsEngineMD5 # "" /\ ~ChecksumMatches
          THEN /\ fret' = <<"Wrong md5 sum for acs-engine.">>
               /\ Fails("getAcsEngine", "checksum", <<"Wrong md5 sum for acs-engine.">>)
               /\ ops' = md5log
               /\ UNCHANGED <<c, files>>
          ELSE IF out = "getwd failed"
          THEN /\ fret' = Errorf("Unable to get current directory",
                                 <<"getwd: no such file or directory">>)
               /\ Fails("getAcsEngine", "Getwd", <<"getwd: no such file or directory">>)
               /\ ops' = Append(md5log, Op("Getwd", ""))
               /\ UNCHANGED <<c, files>>
          ELSE IF out = "tar failed"
          THEN /\ fret' = <<"tar: exit status 2">>
               /\ Fails("getAcsEngine", "tar", <<"tar: exit status 2">>)
               /\ ops' = md5log \o <<Op("Getwd", ""), Op("tar", AcsEnginePath)>>
               /\ UNCHANGED <<c, files>>
          ELSE /\ fret' = NoErr
               /\ ops' = md5log \o <<Op("Getwd", ""), Op("tar", AcsEnginePath)>>
               /\ c' = [c EXCEPT !.acsEngineBinaryPath = PathJoin(CWD, "acs-engine")]
               /\ files' = WriteTo(files, PathJoin(CWD, "acs-engine"),
                                   files[AcsEnginePath])
               /\ UNCHANGED failed
  /\ UNCHANGED <<flags, cluster, locals, result, calls, i, retry, err, herr,
                 apiModel, blobs, env, groups, stages, slept, prevUp>>

\* lines 502-506: the error of getAcsEngine ends Up
UpAcsEngineReturn ==
  /\ pc = "acs_ret"
  /\ IF fret # NoErr
     THEN Return(Errorf("Failed to get ACS Engine binary", fret))
     ELSE /\ pc' = "up_generate"
          /\ UNCHANGED result
  /\ i' = 0
  /\ err' = NoErr
  /\ UNCHANGED <<flags, cluster, c, locals, calls, retry, fret, herr, failed,
                 apiModel, files, blobs, env, groups, ops, stages, slept, prevUp>>

(***************************************************************************)
(* generateARMTemplates, lines 320-325, and loadARMTemplates, 327-350.     *)
(***************************************************************************)
\* a generator run after which the artifacts are not loaded
UpGenerateARMTemplatesSkipsLoad ==
  /\ pc = "up_generate"
  /\ stages' = Append(stages, "generateARMTemplates")
  /\ ops' = Append(ops, Op("exec", c.acsEngineBinaryPath))
  /\ \E ok \in BOOLEAN :
       IF ok
       THEN /\ pc' = "up_create"
            /\ UNCHANGED <<result, failed>>
       ELSE /\ Return(Errorf("Failed to generate ARM templates",
                        Errorf("Failed to generate ARM templates",
                               <<"exit status 1">>)))
            /\ Fails("generateARMTemplates", "exec", <<"exit status 1">>)
  /\ UNCHANGED <<flags, cluster, c, locals, calls, i, retry, err, fret, herr,
                 apiModel, files, blobs, env, groups, slept, prevUp>>

\* a generator run that always resolves the generator by its default name
UpGenerateARMTemplatesByName ==
  /\ pc = "up_generate"
  /\ stages' = Append(stages, "generateARMTemplates")
  /\ ops' = Append(ops, Op("exec", "acs-engine"))
  /\ \E ok \in BOOLEAN :
       IF ok
       THEN /\ pc' = "up_load"
            /\ UNCHANGED <<result, failed>>
       ELSE /\ Return(Errorf("Failed to generate ARM templates",
                        Errorf("Failed to generate ARM templates",
                               <<"exit status 1">>)))
            /\ Fails("generateARMTemplates", "exec", <<"exit status 1">>)
  /\ UNCHANGED <<flags, cluster, c, locals, calls, i, retry, err, fret, herr,
                 apiModel, files, blobs, env, groups, slept, prevUp>>

\* lines 507-510: the generator is run by the path recorded on c
UpGenerateARMTemplates ==
  /\ pc = "up_generate"
  /\ stages' = Append(stages, "generateARMTemplates")
  /\ ops' = Append(ops, Op("exec", c.acsEngineBinaryPath))
  /\ \E ok \in BOOLEAN :
       IF ok
       THEN /\ pc' = "up_load"
            /\ UNCHANGED <<result, failed>>
       ELSE /\ Return(Errorf("Failed to generate ARM templates",
                        Errorf("Failed to generate ARM templates",
                               <<"exit status 1">>)))
            /\ Fails("generateARMTemplates", "exec", <<"exit status 1">>)
  /\ UNCHANGED <<flags, cluster, c, locals, calls, i, retry, err, fret, herr,
                 apiModel, files, blobs, env, groups, slept, prevUp>>

TemplateFile == "azuredeploy.json"
ParametersFile == "azuredeploy.parameters.json"

\* what the two files the generator left can hold
LoadOutcomes == {"ok", "template missing", "template unparseable",
                 "parameters missing", "parameters unparseable",
                 "no parameters mapping"}

\* lines 329-346: the error loadARMTemplates returns for an outcome
LoadError(out) ==
  IF out = "template missing"
  THEN Errorf("Error reading ARM template file",
              <<"open: no such file or directory">>)
  ELSE IF out = "template unparseable"
  THEN Errorf("Error unmarshall template", <<"unexpected end of JSON input">>)
  ELSE IF out = "parameters missing"
  THEN Errorf("Error reading ARM parameters file",
              <<"open: no such file or directory">>)
  ELSE IF out = "parameters unparseable"
  THEN Errorf("Error unmarshall parameters", <<"unexpected end of JSON input">>)
  ELSE NoErr

\* lines 333-347: the two documents c holds when loadARMTemplates ends
LoadedInto(cl, out) ==
  IF out = "template missing" THEN cl
  ELSE IF out = "template unparseable"
  THEN [cl EXCEPT !.templateJSON = "empty map"]
  ELSE IF out = "parameters missing"
  THEN [cl EXCEPT !.templateJSON = "template"]
  ELSE IF out = "parameters unparseable"
  THEN [cl EXCEPT !.templateJSON = "template", !.parametersJSON = "empty map"]
  ELSE IF out = "no parameters mapping"
  THEN [cl EXCEPT !.templateJSON = "template", !.parametersJSON = "document"]
  ELSE [cl EXCEPT !.templateJSON = "template", !.parametersJSON = "parameters"]

\* lines 511-514 and 327-350: the type assertion of line 347 panics when the
\* document has no "parameters" mapping
UpLoadARMTemplates ==
  /\ pc = "up_load"
  /\ stages' = Append(stages, "loadARMTemplates")
  /\ \E out \in LoadOutcomes :
       LET rt == Op("ReadFile", PathJoin(c.outputDir, TemplateFile))
           rp == Op("ReadFile", PathJoin(c.outputDir, ParametersFile))
       IN
       /\ ops' = IF out \in {"template missing", "template unparseable"}
                 THEN Append(ops, rt) ELSE ops \o <<rt, rp>>
       /\ c' = LoadedInto(c, out)
       /\ IF out = "ok"
          THEN /\ pc' = "up_create"
               /\ UNCHANGED <<result, failed>>
          ELSE IF out = "no parameters mapping"
          THEN /\ Panic("interface conversion: interface {} is nil")
               /\ Fails("loadARMTemplates", "parameters", <<"no parameters mapping">>)
          ELSE /\ Return(Errorf("Error loading ARM templates", LoadError(out)))
               /\ Fails("loadARMTemplates", IF out \in {"template missing", "parameters missing"}
                        THEN "ReadFile" ELSE "json.Unmarshal",
                        Tail(LoadError(out)))
  /\ UNCHANGED <<flags, cluster, locals, calls, i, retry, err, fret, herr,
                 apiModel, files, blobs, env, groups, slept, prevUp>>

(***************************************************************************)
(* createCluster, lines 366-392.                                           *)
(***************************************************************************)
\* lines 368-372: the error of ReadDir is dropped; indexing the empty
\* listing of a missing or empty directory panics
UpCreateCluster ==
  /\ pc = "up_create"
  /\ stages' = Append(stages, "createCluster")
  /\ \E listed \in BOOLEAN :
       LET dir == PathJoin(c.outputDir, "kubeconfig") IN
       IF listed
       THEN /\ ops' = ops \o <<Op("ReadDir", dir), Op("Setenv", "KUBECONFIG")>>
            /\ env' = WriteTo(env, "KUBECONFIG", PathJoin(dir, "kubeconfig.json"))
            /\ pc' = "up_ensure"
            /\ UNCHANGED <<result, failed>>
       ELSE /\ ops' = Append(ops, Op("ReadDir", dir))
            /\ Panic("index out of range")
            /\ Fails("createCluster", "ReadDir", <<"open: no such file or directory">>)
            /\ UNCHANGED env
  /\ UNCHANGED <<flags, cluster, c, locals, calls, i, retry, err, fret, herr,
                 apiModel, files, blobs, groups, slept, prevUp>>

\* lines 374-377
UpEnsureResourceGroup ==
  /\ pc = "up_ensure"
  /\ ops' = Append(ops, Op("EnsureResourceGroup", c.resourceGroup))
  /\ \E ok \in BOOLEAN :
       IF ok
       THEN /\ groups' = groups \cup {c.resourceGroup}
            /\ pc' = "up_validate"
            /\ UNCHANGED <<result, failed>>
       ELSE /\ Return(Errorf("Error creating cluster",
                        Errorf("Could not ensure resource group",
                               <<"AuthorizationFailed">>)))
            /\ Fails("createCluster", "EnsureResourceGroup", <<"AuthorizationFailed">>)
            /\ UNCHANGED groups
  /\ UNCHANGED <<flags, cluster, c, locals, calls, i, retry, err, fret, herr,
                 apiModel, files, blobs, env, stages, slept, prevUp>>

\* a validation whose failure does not stop the deployment
UpValidateDeploymentIgnored ==
  /\ pc = "up_validate"
  /\ ops' = Append(ops, Op("ValidateDeployment", c.resourceGroup))
  /\ \E ok \in BOOLEAN :
       IF ok
       THEN /\ pc' = "up_deploy"
            /\ UNCHANGED <<result, failed>>
       ELSE /\ pc' = "up_deploy"
            /\ UNCHANGED result
            /\ Fails("createCluster", "ValidateDeployment", <<"InvalidTemplate">>)
  /\ UNCHANGED <<flags, cluster, c, locals, calls, i, retry, err, fret, herr,
                 apiModel, files, blobs, env, groups, stages, slept, prevUp>>

\* lines 378-383
UpValidateDeployment ==
  /\ pc = "up_validate"
  /\ ops' = Append(ops, Op("ValidateDeployment", c.resourceGroup))
  /\ \E ok \in BOOLEAN :
       IF ok
       THEN /\ pc' = "up_deploy"
            /\ UNCHANGED <<result, failed>>
       ELSE /\ Return(Errorf("Error creating cluster",
                        Errorf("Template invalid", <<"InvalidTemplate">>)))
            /\ Fails("createCluster", "ValidateDeployment", <<"InvalidTemplate">>)
  /\ UNCHANGED <<flags, cluster, c, locals, calls, i, retry, err, fret, herr,
                 apiModel, files, blobs, env, groups, stages, slept, prevUp>>

\* lines 384-391 and 515-519
UpDeployTemplate ==
  /\ pc = "up_deploy"
  /\ ops' = Append(ops, Op("DeployTemplate", c.resourceGroup))
  /\ \E ok \in BOOLEAN :
       IF ok
       THEN /\ Return(NoErr)
            /\ UNCHANGED failed
       ELSE /\ Return(Errorf("Error creating cluster",
                        Errorf("Cannot deploy", <<"DeploymentFailed">>)))
            /\ Fails("createCluster", "DeployTemplate", <<"DeploymentFailed">>)
  /\ UNCHANGED <<flags, cluster, c, locals, calls, i, retry, err, fret, herr,
                 apiModel, files, blobs, env, groups, stages, slept, prevUp>>

(***************************************************************************)
(* Down, lines 522-525, and the remaining methods, lines 527-541.  Each    *)
(* has a value receiver.                                                   *)
(***************************************************************************)
\* entry of a method that is a single step
Call ==
  /\ pc = "idle"
  /\ calls < MaxCalls
  /\ calls' = calls + 1
  /\ c' = cluster
  /\ stages' = << >>
  /\ slept' = << >>
  /\ i' = 0
  /\ retry' = 0
  /\ err' = NoErr
  /\ herr' = NoErr
  /\ apiModel' = NoApiModel
  /\ prevUp' = LastUp
  /\ pc' = "idle"
  /\ UNCHANGED <<flags, cluster, locals, files, blobs, env>>

\* what DeleteResourceGroup answers: a group that does not exist cannot be
\* deleted; one that exists is deleted or the request fails
DeleteOutcomes(rg) ==
  IF rg \in groups THEN {NoErr, <<"RequestTimeout">>}
  ELSE {<<"ResourceGroupNotFound">>}

\* a Down that names the group to delete by the name of the Cluster
DownDeletesByName ==
  /\ Call
  /\ ops' = <<Op("DeleteResourceGroup", cluster.name)>>
  /\ \E e \in DeleteOutcomes(cluster.name) :
       /\ groups' = IF e = NoErr THEN groups \ {cluster.name} ELSE groups
       /\ fret' = e
       /\ failed' = IF e = NoErr THEN NoFailure
                    ELSE [stage |-> "Down", op |-> "DeleteResourceGroup", cause |-> e,
                          firstOp |-> "DeleteResourceGroup", firstCause |-> e]
       /\ result' = [call |-> "Down",
                     kind |-> IF e = NoErr THEN "ok" ELSE "error", err |-> e]

\* a Down that wraps the error of the deletion
DownWrapsError ==
  /\ Call
  /\ ops' = <<Op("DeleteResourceGroup", cluster.resourceGroup)>>
  /\ \E e \in DeleteOutcomes(cluster.resourceGroup) :
       /\ groups' = IF e = NoErr THEN groups \ {cluster.resourceGroup} ELSE groups
       /\ fret' = e
       /\ failed' = IF e = NoErr THEN NoFailure
                    ELSE [stage |-> "Down", op |-> "DeleteResourceGroup", cause |-> e,
                          firstOp |-> "DeleteResourceGroup", firstCause |-> e]
       /\ result' = [call |-> "Down",
                     kind |-> IF e = NoErr THEN "ok" ELSE "error",
                     err |-> IF e = NoErr THEN e
                             ELSE Errorf("Cannot delete resource group", e)]

\* lines 522-525: fret is what DeleteResourceGroup answered
Down ==
  /\ Call
  /\ ops' = <<Op("DeleteResourceGroup", cluster.resourceGroup)>>
  /\ \E e \in DeleteOutcomes(cluster.resourceGroup) :
       /\ groups' = IF e = NoErr THEN groups \ {cluster.resourceGroup} ELSE groups
       /\ fret' = e
       /\ failed' = IF e = NoErr THEN NoFailure
                    ELSE [stage |-> "Down", op |-> "DeleteResourceGroup", cause |-> e,
                          firstOp |-> "DeleteResourceGroup", firstCause |-> e]
       /\ result' = [call |-> "Down",
                     kind |-> IF e = NoErr THEN "ok" ELSE "error", err |-> e]

\* lines 527-529
DumpClusterLogs ==
  /\ Call
  /\ ops' = << >>
  /\ fret' = NoErr
  /\ failed' = NoFailure
  /\ result' = [call |-> "DumpClusterLogs", kind |-> "ok", err |-> NoErr]
  /\ UNCHANGED groups

\* lines 531-533
GetClusterCreated ==
  /\ Call
  /\ ops' = << >>
  /\ fret' = NoErr
  /\ failed' = NoFailure
  /\ result' = [call |-> "GetClusterCreated", kind |-> "error",
                err |-> <<"not implemented">>]
  /\ UNCHANGED groups

\* lines 535-537
TestSetup ==
  /\ Call
  /\ ops' = << >>
  /\ fret' = NoErr
  /\ failed' = NoFailure
  /\ result' = [call |-> "TestSetup", kind |-> "ok", err |-> NoErr]
  /\ UNCHANGED groups

\* lines 539-541: isUp(c) asks the provider for the nodes of the cluster
IsUp ==
  /\ Call
  /\ ops' = <<Op("isUp", "")>>
  /\ \E e \in {NoErr, <<"cluster is not up">>} :
       /\ fret' = e
       /\ failed' = IF e = NoErr THEN NoFailure
                    ELSE [stage |-> "IsUp", op |-> "isUp", cause |-> e,
                          firstOp |-> "isUp", firstCause |-> e]
       /\ result' = [call |-> "IsUp",
                     kind |-> IF e = NoErr THEN "ok" ELSE "error", err |-> e]
  /\ UNCHANGED groups

Next ==
  \/ NewCheckParams
  \/ NewReadSSHKey
  \/ NewGetAzCredentials
  \/ NewGetARMClient
  \/ UpEnter
  \/ UpBuildHyperKube
  \/ UpBuildWinZip
  \/ ZipCreate
  \/ ZipAttempt
  \/ WinZipRunScript
  \/ WinZipUpload
  \/ UpGenerateTemplate
  \/ UpGetAcsEngine
  \/ AcsCreate
  \/ AcsAttempt
  \/ AcsVerifyExtract
  \/ UpAcsEngineReturn
  \/ UpGenerateARMTemplates
  \/ UpLoadARMTemplates
  \/ UpCreateCluster
  \/ UpEnsureResourceGroup
  \/ UpValidateDeployment
  \/ UpDeployTemplate
  \/ Down
  \/ DumpClusterLogs
  \/ GetClusterCreated
  \/ TestSetup
  \/ IsUp

Spec == Init /\ [][Next]_vars

(***************************************************************************)
(* The two fetch functions on their own, started with every retry count    *)
(* up to MaxRetry on a constructed Cluster.                                *)
(***************************************************************************)
InitFetch ==
  /\ flags \in {checkParams(f).flags :
                  f \in {g \in FlagInputs : checkParams(g).err = NoErr}}
  /\ locals = [tempdir |-> HOME \o "/acs001", sshKey |-> "ssh-rsa AAAA"]
  /\ c = [ClusterLiteral(flags, locals) EXCEPT
            !.credentials = "resolved", !.azureClient = "client(resolved)"]
  /\ cluster = c
  /\ pc \in {"zip_create", "acs_create"}
  /\ pc = "acs_create" => flags.acsEngineURL # ""
  /\ retry \in 0..MaxRetry
  /\ result = [call |-> "fetch", kind |-> "running", err |-> NoErr]
  /\ calls = 0
  /\ i = 0
  /\ err = NoErr
  /\ fret = NoErr
  /\ herr = NoErr
  /\ failed = NoFailure
  /\ apiModel = NoApiModel
  /\ files = NoFiles
  /\ blobs = {}
  /\ env = [n \in {} |-> ""]
  /\ groups = {}
  /\ ops = << >>
  /\ stages = << >>
  /\ slept = << >>
  /\ prevUp = NoPrevUp

NextFetch ==
  \/ ZipCreate
  \/ ZipAttempt
  \/ AcsCreate
  \/ AcsAttempt
  \/ AcsVerifyExtract

SpecFetch == InitFetch /\ [][NextFetch]_vars

(***************************************************************************)
(* generateTemplate on its own, lines 182-272: called on a Cluster whose   *)
(* recorded image and package URLs are any of the values the builders can  *)
(* leave there, under any valid configuration.                             *)
(***************************************************************************)
RecordedImages == {"", REGISTRY \o "/hyperkube-amd64:" \o BUILD_NUMBER}
RecordedPackages == {"", "https://account.blob.core.windows.net/container/" \o ZipName}

InitTemplate ==
  /\ flags \in {checkParams(f).flags :
                  f \in {g \in FlagInputs : checkParams(g).err = NoErr}}
  /\ locals = [tempdir |-> HOME \o "/acs001", sshKey |-> "ssh-rsa AAAA"]
  /\ \E img \in RecordedImages, pkg \in RecordedPackages :
       c = [ClusterLiteral(flags, locals) EXCEPT
              !.credentials = "resolved", !.azureClient = "client(resolved)",
              !.acsCustomHyperKubeURL = img, !.acsCustomWinBinariesURL = pkg]
  /\ cluster = c
  /\ pc = "up_template"
  /\ result = [call |-> "generateTemplate", kind |-> "running", err |-> NoErr]
  /\ calls = 0
  /\ i = 0
  /\ retry = 0
  /\ err = NoErr
  /\ fret = NoErr
  /\ herr = NoErr
  /\ failed = NoFailure
  /\ apiModel = NoApiModel
  /\ files = NoFiles
  /\ blobs = {}
  /\ env = [n \in {} |-> ""]
  /\ groups = {}
  /\ ops = << >>
  /\ stages = << >>
  /\ slept = << >>
  /\ prevUp = NoPrevUp

NextTemplate == UpGenerateTemplate

SpecTemplate == InitTemplate /\ [][NextTemplate]_vars

(***************************************************************************)
(* Vocabulary of the properties.                                           *)
(***************************************************************************)
InUp == result.call = "Up"

StartedStages == {stages[k] : k \in 1..Len(stages)}

\* a stage of the current Up after which another stage was started
Completed(st) == \E k \in 1..(Len(stages) - 1) : stages[k] = st

IsSuffix(s, t) ==
  Len(s) <= Len(t) /\ \A k \in 1..Len(s) : s[k] = t[Len(t) - Len(s) + k]

\* the error the running or finished call hands upward
Delivered == IF pc \in {"zip_ret", "acs_ret"} THEN fret ELSE result.err

(***************************************************************************)
(* C1.  In Up, when a stage fails (image build, package build, spec        *)
(* generation, generator fetch, generator run, artifact load, cluster      *)
(* creation), Up returns an error, no later stage is started, and nothing  *)
(* is rolled back: DeleteResourceGroup is never called and the files and   *)
(* blobs of the completed stages stay.                                     *)
(***************************************************************************)
C1_FailureAbortsWithoutRollback ==
  (InUp /\ failed.op # "") =>
    /\ result.kind # "panic"
    /\ pc \in {"idle", "zip_ret", "acs_ret"}
    /\ pc = "idle" => result.kind = "error"
    /\ stages[Len(stages)] = failed.stage
    /\ failed.op = failed.firstOp
    /\ "DeleteResourceGroup" \notin OpNames(ops)
    /\ Completed("buildWinZip") =>
         ZipName \in blobs /\ ZipScriptPath \in DOMAIN files
    /\ Completed("generateTemplate") => ApiModelFile(cluster) \in DOMAIN files
    /\ Completed("getAcsEngine") =>
         {AcsEnginePath, PathJoin(CWD, "acs-engine")} \subseteq DOMAIN files
    /\ failed.op \in {"ValidateDeployment", "DeployTemplate"} =>
         c.resourceGroup \in groups

(***************************************************************************)
(* C2.  In createCluster, ValidateDeployment is called before              *)
(* DeployTemplate; when ValidateDeployment fails, DeployTemplate is not    *)
(* invoked in that run and the error returned says the template is         *)
(* invalid, which the error of a failed DeployTemplate does not say.       *)
(***************************************************************************)
C2_ValidateBeforeDeploy ==
  InUp =>
    /\ "DeployTemplate" \in OpNames(ops) =>
         /\ FirstPos(ops, "ValidateDeployment") > 0
         /\ FirstPos(ops, "ValidateDeployment") < FirstPos(ops, "DeployTemplate")
    /\ failed.op = "ValidateDeployment" =>
         /\ "DeployTemplate" \notin OpNames(ops)
         /\ pc = "idle" /\ result.kind = "error"
         /\ Contains(result.err, "Template invalid")
         /\ ~Contains(result.err, "Cannot deploy")
    /\ failed.op = "DeployTemplate" =>
         /\ pc = "idle" /\ result.kind = "error"
         /\ Contains(result.err, "Cannot deploy")
         /\ ~Contains(result.err, "Template invalid")

C2_Witness ==
  /\ InUp /\ pc = "idle" /\ failed.op = "ValidateDeployment"
  /\ Count(ops, "ValidateDeployment") = 1
  /\ Count(ops, "EnsureResourceGroup") = 1

(***************************************************************************)
(* C3.  For every retry count >= 1, a fetch (getAcsEngine or               *)
(* getZipBuildScript) whose download fails on every attempt makes exactly  *)
(* that many attempts and returns the error of the final attempt; a fetch  *)
(* whose k-th attempt is the first to succeed makes exactly k attempts.    *)
(***************************************************************************)
FetchAttempted ==
  /\ retry >= 1
  /\ pc \in {"zip_ret", "acs_ret", "acs_verify"}
  /\ Count(ops, "httpRead") >= 1

\* the counting half of C3
C3_AttemptCounts ==
  FetchAttempted =>
    /\ Count(ops, "httpRead") <= retry
    /\ failed.op = "httpRead" => Count(ops, "httpRead") = retry
    /\ failed.firstOp # "httpRead" => Count(ops, "httpRead") = i + 1

\* C3: the attempts are counted as stated, and a fetch that failed on every
\* attempt returns an error that carries the error of its final attempt
C3_FetchAttempts ==
  /\ C3_AttemptCounts
  /\ (FetchAttempted /\ failed.op = "httpRead") =>
       /\ fret # NoErr
       /\ IsSuffix(failed.cause, fret)

(***************************************************************************)
(* C4.  In getAcsEngine, when a checksum is configured and the checksum    *)
(* of the downloaded file differs from it, the fetch returns an integrity  *)
(* error, makes no further download attempt, never extracts the archive    *)
(* and leaves the recorded generator path unchanged; Up does not run the   *)
(* generator in that run.                                                  *)
(***************************************************************************)
ChecksumDiffers ==
  /\ flags.acsEngineMD5 # ""
  /\ AcsEnginePath \in DOMAIN files
  /\ Md5(files[AcsEnginePath]) # flags.acsEngineMD5

C4_ChecksumMismatchIsFatal ==
  InUp =>
    /\ (ChecksumDiffers /\ "getAcsEngine" \in StartedStages) =>
         /\ "tar" \notin OpNames(ops)
         /\ c.acsEngineBinaryPath = cluster.acsEngineBinaryPath
         /\ "generateARMTemplates" \notin StartedStages
         /\ result.kind # "ok"
    /\ failed.op = "checksum" =>
         /\ ChecksumDiffers
         /\ pc \in {"acs_ret", "idle"}
         /\ pc = "idle" => result.kind = "error"
         /\ Contains(Delivered, "Wrong md5 sum for acs-engine.")
         /\ ops[Len(ops)].op = "md5sum"
         /\ Count(ops, "md5sum") = 1

C4_Witness ==
  /\ InUp /\ pc = "idle" /\ failed.op = "checksum"
  /\ flags.acsEngineMD5 = BadMD5
  /\ files[AcsEnginePath] = <<PAYLOAD>>
  /\ Count(ops, "httpRead") = 1

(***************************************************************************)
(* C5.  If a custom control-plane image URL is configured, no run of Up    *)
(* invokes buildHyperKube, and the specification Up generates carries      *)
(* exactly the configured value as the custom image of its orchestrator    *)
(* profile.                                                                *)
(***************************************************************************)
C5_ConfiguredImageIsUsed ==
  (InUp /\ flags.acsHyperKubeURL # "") =>
    /\ "buildHyperKube" \notin StartedStages
    /\ "hack/dev-push-hyperkube.sh" \notin {ops[k].arg : k \in 1..Len(ops)}
    /\ "generateTemplate" \in StartedStages =>
         /\ apiModel.CustomHyperkubeImage = flags.acsHyperKubeURL
         /\ (ApiModelFile(cluster) \in DOMAIN files
               /\ files[ApiModelFile(cluster)] # << >>) =>
              Contains(files[ApiModelFile(cluster)],
                       "customHyperkubeImage=" \o flags.acsHyperKubeURL)

C5_Witness ==
  /\ InUp /\ flags.acsHyperKubeURL = "registry/img:v9"
  /\ "generateTemplate" \in StartedStages
  /\ ApiModelFile(cluster) \in DOMAIN files
  /\ Contains(files[ApiModelFile(cluster)],
              "customHyperkubeImage=registry/img:v9")

(***************************************************************************)
(* C6.  Down performs exactly one cloud-client action, DeleteResourceGroup *)
(* on the resource group of the Cluster, and returns what that call        *)
(* returned: an error unchanged, success as success.                       *)
(***************************************************************************)
C6_DownReturnsDeletionResult ==
  result.call = "Down" =>
    /\ ops = <<Op("DeleteResourceGroup", cluster.resourceGroup)>>
    /\ result.err = fret
    /\ result.kind = IF fret = NoErr THEN "ok" ELSE "error"
    /\ fret = NoErr => cluster.resourceGroup \notin groups

C6_Witness ==
  /\ result.call = "Down"
  /\ result.kind = "error"
  /\ result.err = <<"ResourceGroupNotFound">>

(***************************************************************************)
(* C7.  Every failure during Up reaches the caller as a returned error     *)
(* that wraps the cause of the first failing step; Up never terminates     *)
(* abnormally and never returns success after a failed step.  This covers  *)
(* a missing or unparseable template or parameters file, a parameters      *)
(* document without a top-level parameters mapping, and a missing or empty *)
(* kubeconfig directory.                                                   *)
(***************************************************************************)
C7_FailuresAreReturned ==
  InUp =>
    /\ result.kind # "panic"
    /\ result.kind = "ok" => failed.op = ""
    /\ (pc = "idle" /\ failed.op # "") =>
         /\ result.kind = "error"
         /\ IsSuffix(failed.firstCause, result.err)

(***************************************************************************)
(* C8.  Each of the four conditional stages of Up (image build, package    *)
(* build, specification generation, generator fetch) is skipped when its   *)
(* piece of configuration (image URL, package URL, specification path,     *)
(* generator download URL) is non-empty and runs when it is empty.         *)
(***************************************************************************)
GateRank(p) ==
  CASE p = "up_hyperkube" -> 1
    [] p = "up_winzip" -> 2
    [] p \in {"zip_create", "zip_loop", "zip_ret", "zip_upload"} -> 3
    [] p = "up_template" -> 4
    [] p = "up_acsengine" -> 5
    [] p \in {"acs_create", "acs_loop", "acs_verify", "acs_ret"} -> 6
    [] p \in {"up_generate", "up_load", "up_create", "up_ensure",
              "up_validate", "up_deploy"} -> 7
    [] OTHER -> 0

\* the current Up has decided the gate that is taken at rank n
Past(n) ==
  \/ result.kind = "running" /\ GateRank(pc) > n
  \/ result.kind = "ok"
  \/ "generateARMTemplates" \in StartedStages

SkippedWhenSet(st, value) == value # "" => st \notin StartedStages

RunsWhenEmpty(st, value, n) == (value = "" /\ Past(n)) => st \in StartedStages

BuildGatesFollowConfiguration ==
  /\ SkippedWhenSet("buildHyperKube", flags.acsHyperKubeURL)
  /\ RunsWhenEmpty("buildHyperKube", flags.acsHyperKubeURL, 1)
  /\ SkippedWhenSet("buildWinZip", flags.acsWinBinariesURL)
  /\ RunsWhenEmpty("buildWinZip", flags.acsWinBinariesURL, 2)
  /\ SkippedWhenSet("generateTemplate", flags.acsTemplatePath)
  /\ RunsWhenEmpty("generateTemplate", flags.acsTemplatePath, 4)

\* C8 as stated: all four stages are skipped when their configuration is
\* non-empty and run when it is empty
C8_AllFourSkippedWhenSet ==
  InUp =>
    /\ BuildGatesFollowConfiguration
    /\ SkippedWhenSet("getAcsEngine", flags.acsEngineURL)
    /\ RunsWhenEmpty("getAcsEngine", flags.acsEngineURL, 5)

\* C8 as amended: the first three stages are skipped when their
\* configuration is non-empty and run when it is empty; the generator fetch
\* is the other way round, it runs when the download URL is non-empty and
\* is skipped when it is empty.
C8_FetchRunsWhenSet ==
  InUp =>
    /\ BuildGatesFollowConfiguration
    /\ flags.acsEngineURL = "" => "getAcsEngine" \notin StartedStages
    /\ (flags.acsEngineURL # "" /\ Past(5)) => "getAcsEngine" \in StartedStages

C8_Witness ==
  /\ InUp /\ pc = "idle" /\ result.kind = "ok"
  /\ flags.acsEngineURL # "" /\ flags.acsHyperKubeURL = ""
  /\ flags.acsWinBinariesURL # "" /\ flags.acsTemplatePath # ""
  /\ stages = <<"buildHyperKube", "getAcsEngine", "generateARMTemplates",
                "loadARMTemplates", "createCluster">>

(***************************************************************************)
(* C9.  Up does not resume: after an Up that failed, the next Up on the    *)
(* same Cluster starts at the first enabled stage and issues the side      *)
(* effects of the enabled stages again in the same order, those of the     *)
(* stages the failed run completed included.                               *)
(***************************************************************************)
FirstEnabledStage ==
  IF flags.acsHyperKubeURL = "" THEN "buildHyperKube"
  ELSE IF flags.acsWinBinariesURL = "" THEN "buildWinZip"
  ELSE IF flags.acsTemplatePath = "" THEN "generateTemplate"
  ELSE IF flags.acsEngineURL # "" THEN "getAcsEngine"
  ELSE "generateARMTemplates"

C9_UpStartsOver ==
  (InUp /\ prevUp.kind = "error") =>
    /\ stages # << >> => stages[1] = FirstEnabledStage
    /\ \/ IsPrefix(Effects(ops), prevUp.effects)
       \/ IsPrefix(prevUp.effects, Effects(ops))
    /\ result.kind = "ok" => IsPrefix(prevUp.effects, Effects(ops))

C9_Witness ==
  /\ InUp /\ prevUp.kind = "error" /\ result.kind = "ok"
  /\ Len(prevUp.effects) >= 3
  /\ Len(Effects(ops)) > Len(prevUp.effects)

(***************************************************************************)
(* C10.  When the credentials path, the admin username or the admin        *)
(* password is empty, newAcsEngine returns an error that names the missing *)
(* input and no Cluster, before any side effect: no working directory is   *)
(* created, no file is read, no cloud client is built and no environment   *)
(* variable is set.                                                        *)
(***************************************************************************)
MissingInputMessage ==
  IF flags.acsCredentialsFile = "" THEN "No credentials file path specified"
  ELSE IF flags.acsAdminUsername = ""
  THEN "Error parsing flags. No admin username specified"
  ELSE "Error parting flags. No admin password specified."

C10_MissingInputRejectedFirst ==
  (/\ pc # "new"
   /\ \/ flags.acsCredentialsFile = ""
      \/ flags.acsAdminUsername = ""
      \/ flags.acsAdminPassword = "") =>
    /\ pc = "exit"
    /\ result.call = "newAcsEngine" /\ result.kind = "error"
    /\ Contains(result.err, MissingInputMessage)
    /\ cluster = NilCluster
    /\ ops = << >>
    /\ DOMAIN env = {}
    /\ DOMAIN files = {}

C10_Witness ==
  /\ pc = "exit" /\ result.kind = "error"
  /\ flags.acsCredentialsFile # "" /\ flags.acsAdminUsername # ""
  /\ flags.acsAdminPassword = ""
  /\ Contains(result.err, "Error parting flags. No admin password specified.")

(***************************************************************************)
(* C11.  In generateTemplate a failure to serialise the specification and  *)
(* a failure to write the specification file each make the step return an  *)
(* error, so that Up aborts before the generator is run; serialisation and *)
(* the write are each attempted at most once.                              *)
(***************************************************************************)
C11_TemplateFailuresAbortUp ==
  (InUp /\ "generateTemplate" \in StartedStages) =>
    /\ Count(ops, "json.MarshalIndent") = 1
    /\ Count(ops, "WriteFile") <= 1
    /\ failed.firstOp \in {"json.MarshalIndent", "WriteFile"} =>
         /\ pc = "idle"
         /\ result.kind = "error"
         /\ Contains(result.err, "Failed to generate apiModel")
         /\ IsSuffix(failed.firstCause, result.err)
         /\ "getAcsEngine" \notin StartedStages
         /\ "generateARMTemplates" \notin StartedStages

(***************************************************************************)
(* C12.  newAcsEngine returns a Cluster only when the credentials were     *)
(* resolved: when the credentials file cannot be read or parsed it returns *)
(* an error and no Cluster, and no cloud client is built from empty or     *)
(* partial credentials.                                                    *)
(***************************************************************************)
C12_UnresolvedCredentialsRejected ==
  /\ cluster # NilCluster => cluster.credentials = "resolved"
  /\ result.call = "newAcsEngine" =>
       /\ \A k \in 1..Len(ops) :
            ops[k].op = "getAzureClient" => ops[k].arg = "resolved"
       /\ (pc \in {"new_client", "idle", "exit"} /\ c.credentials # "resolved"
             /\ c # NilCluster) =>
            /\ pc = "exit"
            /\ result.kind = "error"
            /\ Contains(result.err, "credentials file")

(***************************************************************************)
(* C13.  In every Up that returns success the external operations occur in *)
(* this order, each step at most once: image build script; build-script    *)
(* fetch, package build script, upload; specification write; generator     *)
(* download, extraction; generator run; read of the template and the       *)
(* parameters files; export of KUBECONFIG; EnsureResourceGroup;            *)
(* ValidateDeployment; DeployTemplate.  No stage runs again after a later  *)
(* stage has started, and the generator run, the artifact load,            *)
(* EnsureResourceGroup, ValidateDeployment and DeployTemplate each occur   *)
(* exactly once.                                                           *)
(***************************************************************************)
\* the step of Up an external operation belongs to; 0 for the operations
\* the claim does not order
StepRank(o) ==
  CASE o.op = "exec" /\ o.arg = "hack/dev-push-hyperkube.sh" -> 1
    [] o.op \in {"os.Create", "Chmod"} /\ o.arg = ZipScriptPath -> 2
    [] o.op = "httpRead" /\ o.arg = flags.acsWinZipBuildScript -> 2
    [] o.op = "exec" /\ o.arg = ZipScriptPath -> 3
    [] o.op \in {"os.Open", "UploadFileToBlockBlob"} -> 4
    [] o.op \in {"json.MarshalIndent", "WriteFile"} -> 5
    [] o.op = "os.Create" /\ o.arg = AcsEnginePath -> 6
    [] o.op = "httpRead" /\ o.arg = flags.acsEngineURL -> 6
    [] o.op \in {"md5sum", "tar"} -> 7
    [] o.op = "exec" /\ o.arg = c.acsEngineBinaryPath -> 8
    [] o.op = "ReadFile" -> 9
    [] o.op \in {"ReadDir", "Setenv"} /\ o.arg # "VERSION" -> 10
    [] o.op = "EnsureResourceGroup" -> 11
    [] o.op = "ValidateDeployment" -> 12
    [] o.op = "DeployTemplate" -> 13
    [] OTHER -> 0

Ordered(log) ==
  \A j, k \in 1..Len(log) :
    (j < k /\ StepRank(log[j]) > 0 /\ StepRank(log[k]) > 0)
      => StepRank(log[j]) <= StepRank(log[k])

CountOf(log, o) == Cardinality({k \in 1..Len(log) : log[k] = o})

StageRank(st) ==
  CASE st = "buildHyperKube" -> 1
    [] st = "buildWinZip" -> 2
    [] st = "generateTemplate" -> 3
    [] st = "getAcsEngine" -> 4
    [] st = "generateARMTemplates" -> 5
    [] st = "loadARMTemplates" -> 6
    [] st = "createCluster" -> 7
    [] OTHER -> 0

C13_SuccessfulUpOrder ==
  InUp =>
    /\ \A j, k \in 1..Len(stages) :
         j < k => StageRank(stages[j]) < StageRank(stages[k])
    /\ (pc = "idle" /\ result.kind = "ok") =>
         /\ Ordered(ops)
         /\ \A r \in {1, 3, 8, 11, 12, 13} :
              Cardinality({k \in 1..Len(ops) : StepRank(ops[k]) = r}) <= 1
         /\ \A name \in {"os.Open", "UploadFileToBlockBlob", "WriteFile", "tar"} :
              Count(ops, name) <= 1
         /\ CountOf(ops, Op("os.Create", ZipScriptPath)) <= 1
         /\ CountOf(ops, Op("os.Create", AcsEnginePath)) <= 1
         /\ CountOf(ops, Op("httpRead", flags.acsWinZipBuildScript)) <= ZipScriptRetry
         /\ CountOf(ops, Op("httpRead", flags.acsEngineURL)) <= AcsEngineRetry
         /\ CountOf(ops, Op("exec", c.acsEngineBinaryPath)) = 1
         /\ CountOf(ops, Op("ReadFile", PathJoin(c.outputDir, TemplateFile))) = 1
         /\ CountOf(ops, Op("ReadFile", PathJoin(c.outputDir, ParametersFile))) = 1
         /\ CountOf(ops, Op("Setenv", "KUBECONFIG")) = 1
         /\ Count(ops, "EnsureResourceGroup") = 1
         /\ Count(ops, "ValidateDeployment") = 1
         /\ Count(ops, "DeployTemplate") = 1
         /\ ops[Len(ops)].op = "DeployTemplate"

C13_Witness ==
  /\ InUp /\ pc = "idle" /\ result.kind = "ok"
  /\ stages = <<"buildHyperKube", "buildWinZip", "generateTemplate",
                "getAcsEngine", "generateARMTemplates", "loadARMTemplates",
                "createCluster">>
  /\ CountOf(ops, Op("httpRead", flags.acsEngineURL)) = 2

(***************************************************************************)
(* C14.  In the retry loop of a fetch, after the failed attempt with       *)
(* 0-based index i (i < retry - 1) the fetch sleeps exactly i seconds      *)
(* before the next attempt; it never sleeps after a successful attempt or  *)
(* after the final failed attempt, so an always-failing fetch sleeps       *)
(* 0 + 1 + ... + (retry - 2) seconds in total.                             *)
(***************************************************************************)
RECURSIVE SumSeq(_)
SumSeq(s) == IF s = << >> THEN 0 ELSE s[1] + SumSeq(Tail(s))

FetchReturned == result.call = "fetch" /\ pc \in {"zip_ret", "acs_ret", "acs_verify"}

C14_SleepSchedule ==
  result.call = "fetch" =>
    /\ \A k \in 1..Len(slept) : slept[k] = k - 1
    /\ Count(ops, "sleep") = Len(slept)
    /\ \A k \in 1..Len(ops) :
         ops[k].op = "sleep" =>
           /\ k > 1 /\ ops[k-1].op = "httpRead"
           /\ Cardinality({j \in 1..k : ops[j].op = "httpRead"}) < retry
           /\ (FetchReturned \/ k < Len(ops)) =>
                (k < Len(ops) /\ ops[k+1].op = "httpRead")
    /\ (FetchReturned /\ Count(ops, "httpRead") >= 1) =>
         Len(slept) = Count(ops, "httpRead") - 1
    /\ (FetchReturned /\ failed.op = "httpRead") =>
         /\ Len(slept) = retry - 1
         /\ 2 * SumSeq(slept) = (retry - 1) * (retry - 2)

C14_Witness ==
  /\ FetchReturned /\ failed.op = "httpRead"
  /\ retry = 3
  /\ slept = <<0, 1>>

(***************************************************************************)
(* C15.  In generateTemplate, for the custom image and for the custom      *)
(* package URL independently: a non-empty configured override is what the  *)
(* specification carries, whatever the builder recorded on the Cluster;    *)
(* else a non-empty recorded value is carried; else the field is empty.    *)
(***************************************************************************)
Carried(override, recorded) ==
  IF override # "" THEN override
  ELSE IF recorded # "" THEN recorded
  ELSE ""

TemplateGenerated == result.call = "generateTemplate" /\ apiModel # NoApiModel

C15_OverridePrecedence ==
  TemplateGenerated =>
    LET image == Carried(flags.acsHyperKubeURL, cluster.acsCustomHyperKubeURL)
        package == Carried(flags.acsWinBinariesURL, cluster.acsCustomWinBinariesURL)
    IN /\ apiModel.CustomHyperkubeImage = image
       /\ apiModel.CustomWindowsPackageURL = package
       /\ (ApiModelFile(cluster) \in DOMAIN files
             /\ files[ApiModelFile(cluster)] # << >>) =>
            /\ files[ApiModelFile(cluster)][2] = "customHyperkubeImage=" \o image
            /\ files[ApiModelFile(cluster)][3] = "customWindowsPackageURL=" \o package

C15_Witness ==
  /\ TemplateGenerated
  /\ flags.acsHyperKubeURL # "" /\ cluster.acsCustomHyperKubeURL # ""
  /\ flags.acsWinBinariesURL = "" /\ cluster.acsCustomWinBinariesURL # ""
  /\ ApiModelFile(cluster) \in DOMAIN files
  /\ files[ApiModelFile(cluster)] # << >>
  /\ files[ApiModelFile(cluster)][2] = "customHyperkubeImage=" \o flags.acsHyperKubeURL
  /\ files[ApiModelFile(cluster)][3] =
       "customWindowsPackageURL=" \o cluster.acsCustomWinBinariesURL

(***************************************************************************)
(* C16.  In buildWinZip the steps run in the order fetch of the build      *)
(* script (at most 2 download attempts), run of the build script, upload   *)
(* of the package.  The script is run only after a successful fetch, the   *)
(* upload is attempted only after the script succeeded, script and upload  *)
(* are each attempted at most once, and the package URL is recorded on the *)
(* Cluster only after the upload succeeded: it stays empty on any failure. *)
(***************************************************************************)
ScriptRun == Op("exec", ZipScriptPath)
ScriptFetch == Op("httpRead", flags.acsWinZipBuildScript)

PosOf(log, o) ==
  IF \E k \in 1..Len(log) : log[k] = o
  THEN CHOOSE k \in 1..Len(log) : log[k] = o /\ \A j \in 1..(k-1) : log[j] # o
  ELSE 0

LastPosOf(log, o) ==
  IF \E k \in 1..Len(log) : log[k] = o
  THEN CHOOSE k \in 1..Len(log) : log[k] = o /\ \A j \in (k+1)..Len(log) : log[j] # o
  ELSE 0

C16_BuildWinZipOrder ==
  (InUp /\ "buildWinZip" \in StartedStages) =>
    /\ CountOf(ops, ScriptFetch) <= 2
    /\ CountOf(ops, ScriptRun) <= 1
    /\ Count(ops, "os.Open") <= 1
    /\ Count(ops, "UploadFileToBlockBlob") <= 1
    /\ PosOf(ops, ScriptRun) > 0 =>
         /\ LastPosOf(ops, ScriptFetch) > 0
         /\ LastPosOf(ops, ScriptFetch) < PosOf(ops, ScriptRun)
         /\ files[ZipScriptPath] # << >>
         /\ files[ZipScriptPath][Len(files[ZipScriptPath])] = PAYLOAD
    /\ "os.Open" \in OpNames(ops) =>
         /\ PosOf(ops, ScriptRun) > 0
         /\ PosOf(ops, ScriptRun) < PosOf(ops, Op("os.Open", ZipPath))
         /\ ~(failed.stage = "buildWinZip" /\ failed.firstOp = "exec")
    /\ "UploadFileToBlockBlob" \in OpNames(ops) =>
         PosOf(ops, Op("os.Open", ZipPath))
           < PosOf(ops, Op("UploadFileToBlockBlob", ZipName))
    /\ c.acsCustomWinBinariesURL # "" =>
         /\ "UploadFileToBlockBlob" \in OpNames(ops)
         /\ ZipName \in blobs
         /\ failed.stage # "buildWinZip"
    /\ failed.stage = "buildWinZip" =>
         /\ c.acsCustomWinBinariesURL = ""
         /\ pc \in {"zip_ret", "idle"}
         /\ "generateTemplate" \notin StartedStages

C16_Witness ==
  /\ InUp /\ pc = "idle" /\ failed.stage = "buildWinZip"
  /\ failed.op = "UploadFileToBlockBlob"
  /\ CountOf(ops, ScriptFetch) = 2
  /\ CountOf(ops, ScriptRun) = 1
  /\ c.acsCustomWinBinariesURL = ""

(***************************************************************************)
(* C17.  The generator run of Up uses the path of the extracted binary     *)
(* (current working directory + "acs-engine") if and only if a generator   *)
(* download URL was configured and the download, the checksum check and    *)
(* the extraction all succeeded in that same Up; when no download URL is   *)
(* configured nothing is downloaded or extracted and the generator is run  *)
(* by the default name "acs-engine", resolved on the execution path.       *)
(***************************************************************************)
GeneratorRuns ==
  {k \in 1..Len(ops) :
     /\ ops[k].op = "exec"
     /\ ops[k].arg \notin {"hack/dev-push-hyperkube.sh", ZipScriptPath}}

FetchedInThisUp ==
  /\ flags.acsEngineURL # ""
  /\ "getAcsEngine" \in StartedStages
  /\ failed.stage # "getAcsEngine"
  /\ PosOf(ops, Op("httpRead", flags.acsEngineURL)) > 0
  /\ AcsEnginePath \in DOMAIN files
  /\ files[AcsEnginePath] # << >>
  /\ files[AcsEnginePath][Len(files[AcsEnginePath])] = PAYLOAD
  /\ flags.acsEngineMD5 # "" =>
       /\ "md5sum" \in OpNames(ops)
       /\ Md5(files[AcsEnginePath]) = flags.acsEngineMD5
  /\ "tar" \in OpNames(ops)
  /\ PathJoin(CWD, "acs-engine") \in DOMAIN files

C17_GeneratorPath ==
  InUp =>
    /\ "generateARMTemplates" \in StartedStages <=> GeneratorRuns # {}
    /\ Cardinality(GeneratorRuns) <= 1
    /\ \A k \in GeneratorRuns :
         /\ ops[k].arg \in {"acs-engine", PathJoin(CWD, "acs-engine")}
         /\ ops[k].arg = PathJoin(CWD, "acs-engine") <=> FetchedInThisUp
         /\ flags.acsEngineURL = "" => ops[k].arg = "acs-engine"
    /\ flags.acsEngineURL = "" =>
         /\ "getAcsEngine" \notin StartedStages
         /\ "tar" \notin OpNames(ops)
         /\ "md5sum" \notin OpNames(ops)
         /\ PosOf(ops, Op("os.Create", AcsEnginePath)) = 0
         /\ c.acsEngineBinaryPath = "acs-engine"

C17_Witness ==
  /\ InUp /\ prevUp.kind = "ok"
  /\ flags.acsEngineURL # "" /\ flags.acsEngineMD5 = GoodMD5
  /\ \E k \in GeneratorRuns : ops[k].arg = PathJoin(CWD, "acs-engine")

(***************************************************************************)
(* C18.  When a fetch succeeds on an attempt that follows one or more      *)
(* failed attempts, the destination file that is then checksummed,         *)
(* extracted or executed holds exactly the bytes the successful attempt    *)
(* delivered, with nothing left over from the failed attempts.             *)
(***************************************************************************)
FetchSucceeded ==
  \/ pc = "zip_ret" /\ fret = NoErr /\ failed.op = ""
  \/ pc = "acs_verify"

Destination == IF pc = "zip_ret" THEN ZipScriptPath ELSE AcsEnginePath

C18_NoLeftoverBytes ==
  (FetchSucceeded /\ retry >= 1 /\ Count(ops, "httpRead") >= 2) =>
    files[Destination] = <<PAYLOAD>>

(***************************************************************************)
(* C19.  Up leaves the caller's Cluster unchanged, whether it succeeds or  *)
(* fails: after Up returns, the caller's specification path, deployment    *)
(* template and parameters, recorded image URL, recorded package URL and   *)
(* generator binary path have the values they had before the call; the     *)
(* outputs of the stages live only in Up's own copy of the Cluster.        *)
(***************************************************************************)
CallerFields(cl) ==
  <<cl.apiModelPath, cl.templateJSON, cl.parametersJSON,
    cl.acsCustomHyperKubeURL, cl.acsCustomWinBinariesURL,
    cl.acsEngineBinaryPath>>

C19_UpLeavesCallerUnchanged ==
  [][(result'.call = "Up") => CallerFields(cluster') = CallerFields(cluster)]_vars

C19_Witness ==
  /\ InUp /\ pc = "idle" /\ result.kind = "ok"
  /\ c.apiModelPath # cluster.apiModelPath
  /\ c.templateJSON # cluster.templateJSON
  /\ c.parametersJSON # cluster.parametersJSON
  /\ c.acsCustomHyperKubeURL # cluster.acsCustomHyperKubeURL
  /\ c.acsCustomWinBinariesURL # cluster.acsCustomWinBinariesURL
  /\ c.acsEngineBinaryPath # cluster.acsEngineBinaryPath
  /\ cluster.acsEngineBinaryPath = "acs-engine"

(***************************************************************************)
(* C20.  The resource group name and the cloud client of a Cluster are     *)
(* fixed at construction and no sequence of Up, Down, IsUp,                *)
(* DumpClusterLogs and GetClusterCreated calls changes them; hence the     *)
(* resource group Down deletes is always the one Up ensured and deployed   *)
(* into.                                                                   *)
(***************************************************************************)
GroupOps == {"EnsureResourceGroup", "ValidateDeployment", "DeployTemplate",
             "DeleteResourceGroup"}

Constructed == cluster # NilCluster

C20_GroupAndClientFixed ==
  Constructed =>
    /\ cluster.resourceGroup = flags.acsResourceGroupName
    /\ cluster.resourceGroup # ""
    /\ cluster.azureClient = "client(" \o cluster.credentials \o ")"
    /\ c.resourceGroup = cluster.resourceGroup
    /\ c.azureClient = cluster.azureClient
    /\ \A k \in 1..Len(ops) :
         ops[k].op \in GroupOps => ops[k].arg = cluster.resourceGroup
    /\ groups \subseteq {cluster.resourceGroup}
    /\ (result.call = "Down" /\ result.kind = "ok") => groups = {}

C20_Witness ==
  /\ Constructed
  /\ result.call = "Down" /\ result.kind = "ok"
  /\ prevUp.kind = "ok"
  /\ ops = <<Op("DeleteResourceGroup", flags.acsResourceGroupName)>>
  /\ groups = {}

====
